---- MODULE Spec2Model ----
(***************************************************************************)
(* Model of the newsletter archive's repository-content layer              *)
(* (app/utils/github.ts): the tarball fetch, the tar extraction, the       *)
(* metadata derivation, the module-level cache and the accessors.          *)
(*                                                                         *)
(* Strings are sequences of one-character strings, byte arrays are         *)
(* sequences of numbers 0..255, a JavaScript Map is the sequence of its    *)
(* <<key, value>> pairs in insertion order, and a value that may be        *)
(* null/undefined is a sequence of length at most one.                     *)
(***************************************************************************)
EXTENDS Integers, Sequences, FiniteSets, TLC

\* -------------------------------------------------------------------------
\* Optional values (null / undefined)
\* -------------------------------------------------------------------------
None == <<>>
Some(x) == <<x>>
IsSome(o) == Len(o) = 1
Get(o) == o[1]

\* -------------------------------------------------------------------------
\* String helpers (String.prototype methods used by the source)
\* -------------------------------------------------------------------------
StartsWith(s, p) == Len(s) >= Len(p) /\ SubSeq(s, 1, Len(p)) = p

EndsWith(s, p) == Len(s) >= Len(p) /\ SubSeq(s, Len(s) - Len(p) + 1, Len(s)) = p

Includes(s, p) == \E i \in 1..(Len(s) - Len(p) + 1) : SubSeq(s, i, i + Len(p) - 1) = p

\* s.split(sep) for a one-character separator
RECURSIVE Split(_, _)
Split(s, sep) ==
  IF \A i \in 1..Len(s) : s[i] # sep
  THEN <<s>>
  ELSE LET i == CHOOSE k \in 1..Len(s) : s[k] = sep /\ \A j \in 1..(k - 1) : s[j] # sep
       IN  <<SubSeq(s, 1, i - 1)>> \o Split(SubSeq(s, i + 1, Len(s)), sep)

\* parts.join(sep)
RECURSIVE Join(_, _)
Join(parts, sep) ==
  IF Len(parts) = 0 THEN <<>>
  ELSE IF Len(parts) = 1 THEN parts[1]
  ELSE parts[1] \o sep \o Join(Tail(parts), sep)

Digits == {"0", "1", "2", "3", "4", "5", "6", "7", "8", "9"}

DigitValue(c) ==
  CASE c = "0" -> 0 [] c = "1" -> 1 [] c = "2" -> 2 [] c = "3" -> 3 [] c = "4" -> 4
    [] c = "5" -> 5 [] c = "6" -> 6 [] c = "7" -> 7 [] c = "8" -> 8 [] c = "9" -> 9

AllDigits(s) == \A i \in 1..Len(s) : s[i] \in Digits

\* parseInt(s, 10) of a string of decimal digits
RECURSIVE ParseInt(_)
ParseInt(s) ==
  IF Len(s) = 0 THEN 0
  ELSE 10 * ParseInt(SubSeq(s, 1, Len(s) - 1)) + DigitValue(s[Len(s)])

\* String(n) of a non-negative integer
RECURSIVE NumberToString(_)
NumberToString(n) ==
  LET d == <<"0", "1", "2", "3", "4", "5", "6", "7", "8", "9">>
  IN  IF n < 10 THEN <<d[n + 1]>> ELSE NumberToString(n \div 10) \o <<d[(n % 10) + 1]>>

\* -------------------------------------------------------------------------
\* Literals of the source
\* -------------------------------------------------------------------------
StrNewsletters == <<"n", "e", "w", "s", "l", "e", "t", "t", "e", "r", "s">>
StrNewsletterDash == <<"n", "e", "w", "s", "l", "e", "t", "t", "e", "r", "-">>
StrRemixNewsletter == <<"-", "r", "e", "m", "i", "x", "-">> \o StrNewsletterDash
StrMd == <<".", "m", "d">>
StrDefaultRepo ==
  <<"r", "e", "m", "i", "x", "-", "r", "u", "n", "/">> \o
  <<"n", "e", "w", "s", "l", "e", "t", "t", "e", "r">>

\* -------------------------------------------------------------------------
\* Map (insertion ordered)
\* -------------------------------------------------------------------------
MapHas(m, k) == \E i \in 1..Len(m) : m[i][1] = k

MapGet(m, k) ==
  IF MapHas(m, k) THEN Some(m[CHOOSE i \in 1..Len(m) : m[i][1] = k][2]) ELSE None

MapSet(m, k, v) ==
  IF MapHas(m, k)
  THEN LET i == CHOOSE j \in 1..Len(m) : m[j][1] = k
       IN  SubSeq(m, 1, i - 1) \o <<(<<k, v>>)>> \o SubSeq(m, i + 1, Len(m))
  ELSE Append(m, <<k, v>>)

MapKeys(m) == {m[i][1] : i \in 1..Len(m)}

\* -------------------------------------------------------------------------
\* Date: new Date(year, monthIndex, day) in local time, read back as
\* getFullYear() / getMonth() + 1 / getDate()
\* -------------------------------------------------------------------------
IsLeapYear(y) == (y % 4 = 0 /\ y % 100 # 0) \/ y % 400 = 0

DaysInMonth(y, m) ==
  IF m = 2 THEN (IF IsLeapYear(y) THEN 29 ELSE 28)
  ELSE IF m \in {4, 6, 9, 11} THEN 30 ELSE 31

RECURSIVE NormalizeDay(_, _, _)
NormalizeDay(y, m, d) ==
  IF d < 1
  THEN LET py == IF m = 1 THEN y - 1 ELSE y
           pm == IF m = 1 THEN 12 ELSE m - 1
       IN  NormalizeDay(py, pm, d + DaysInMonth(py, pm))
  ELSE IF d > DaysInMonth(y, m)
  THEN LET ny == IF m = 12 THEN y + 1 ELSE y
           nm == IF m = 12 THEN 1 ELSE m + 1
       IN  NormalizeDay(ny, nm, d - DaysInMonth(y, m))
  ELSE [year |-> y, month |-> m, day |-> d]

MakeDate(year, monthIndex, day) ==
  LET fullYear == IF year >= 0 /\ year <= 99 THEN 1900 + year ELSE year
      months == fullYear * 12 + monthIndex
  IN  NormalizeDay(months \div 12, (months % 12) + 1, day)

\* -------------------------------------------------------------------------
\* parseTarball: the tar entries that lie below a "newsletters/" directory
\* -------------------------------------------------------------------------
LineTerminators == {"\n", "\r"}

StrSlashNewslettersSlash == <<"/">> \o StrNewsletters \o <<"/">>

\* Mutant: "newsletters/" is matched without a folder above it
MatchNewslettersAnywhere(name) ==
  LET marker == StrNewsletters \o <<"/">>
      k == Len(marker)
      ok(p) == /\ p + k <= Len(name)
               /\ SubSeq(name, p, p + k - 1) = marker
               /\ \A i \in (p + k)..Len(name) : name[i] \notin LineTerminators
      ps == {p \in 1..Len(name) : ok(p)}
  IN  IF ps = {} THEN None
      ELSE LET p == CHOOSE q \in ps : \A r \in ps : q <= r
           IN  Some(SubSeq(name, p + k, Len(name)))

\* entry.name.match(/[^/]+\/newsletters\/(.+)$/): the capture group, if any
MatchNewslettersPath(name) ==
  LET k == Len(StrSlashNewslettersSlash)
      ok(p) == /\ p + k <= Len(name)
               /\ name[p - 1] # "/"
               /\ SubSeq(name, p, p + k - 1) = StrSlashNewslettersSlash
               /\ \A i \in (p + k)..Len(name) : name[i] \notin LineTerminators
      ps == {p \in 2..Len(name) : ok(p)}
  IN  IF ps = {} THEN None
      ELSE LET p == CHOOSE q \in ps : \A r \in ps : q <= r
           IN  Some(SubSeq(name, p + k, Len(name)))

\* One call of the parseTar callback on an entry
\* Mutant: the content is stored under the file's name instead of its path
ParseEntryContentByName(acc, entry) ==
  IF ~Includes(entry.name, StrNewsletters \o <<"/">>) THEN acc
  ELSE IF entry.type = "directory" \/ EndsWith(entry.name, <<"/">>) THEN acc
  ELSE LET match == MatchNewslettersPath(entry.name)
       IN  IF ~IsSome(match) THEN acc
           ELSE LET relativePath == Get(match)
                    parts == Split(relativePath, "/")
                    filename == parts[Len(parts)]
                IN  [files |-> MapSet(acc.files, relativePath,
                                      [name |-> filename, path |-> relativePath,
                                       size |-> entry.size]),
                     contents |-> MapSet(acc.contents, filename, entry.bytes)]

ParseEntry(acc, entry) ==
  IF ~Includes(entry.name, StrNewsletters \o <<"/">>) THEN acc
  ELSE IF entry.type = "directory" \/ EndsWith(entry.name, <<"/">>) THEN acc
  ELSE LET match == MatchNewslettersPath(entry.name)
       IN  IF ~IsSome(match) THEN acc
           ELSE LET relativePath == Get(match)
                    parts == Split(relativePath, "/")
                    filename == parts[Len(parts)]
                IN  [files |-> MapSet(acc.files, relativePath,
                                      [name |-> filename, path |-> relativePath,
                                       size |-> entry.size]),
                     contents |-> MapSet(acc.contents, relativePath, entry.bytes)]

RECURSIVE ParseEntries(_, _)
ParseEntries(acc, entries) ==
  IF Len(entries) = 0 THEN acc
  ELSE ParseEntries(ParseEntry(acc, Head(entries)), Tail(entries))

parseTarball(data) == ParseEntries([files |-> <<>>, contents |-> <<>>], data)

\* -------------------------------------------------------------------------
\* extractNewsletterMetadata
\* -------------------------------------------------------------------------
\* First loop: group the files by their first path segment
GroupFile(newsletterDirs, filePath, file) ==
  LET parts == Split(filePath, "/")
  IN  IF Len(parts) < 2 THEN newsletterDirs
      ELSE LET dirName == parts[1]
           IN  IF ~StartsWith(dirName, StrNewsletterDash) THEN newsletterDirs
               ELSE LET had == MapGet(newsletterDirs, dirName)
                        before == IF IsSome(had) THEN Get(had) ELSE <<>>
                    IN  MapSet(newsletterDirs, dirName, Append(before, file))

RECURSIVE GroupFiles(_, _)
GroupFiles(newsletterDirs, files) ==
  IF Len(files) = 0 THEN newsletterDirs
  ELSE GroupFiles(GroupFile(newsletterDirs, Head(files)[1], Head(files)[2]), Tail(files))

\* Mutant: the last markdown file of the directory is taken, not the first
FindLastMarkdownFile(dirFiles) ==
  LET hits == {i \in 1..Len(dirFiles) : EndsWith(dirFiles[i].name, StrMd)}
  IN  IF hits = {} THEN None
      ELSE Some(dirFiles[CHOOSE i \in hits : \A j \in hits : i >= j])

\* dirFiles.find((f) => f.name.endsWith(".md"))
FindMarkdownFile(dirFiles) ==
  LET hits == {i \in 1..Len(dirFiles) : EndsWith(dirFiles[i].name, StrMd)}
  IN  IF hits = {} THEN None
      ELSE Some(dirFiles[CHOOSE i \in hits : \A j \in hits : i <= j])

\* dirName.match(/^newsletter-(\d+)$/): the capture group, if any
MatchDirName(dirName) ==
  LET k == Len(StrNewsletterDash)
      rest == SubSeq(dirName, k + 1, Len(dirName))
  IN  IF StartsWith(dirName, StrNewsletterDash) /\ Len(rest) >= 1 /\ AllDigits(rest)
      THEN Some(rest) ELSE None

\* name.match(/^(\d{4})-(\d{2})-(\d{2})-remix-newsletter-\d+\.md$/): the three
\* capture groups, if any
MatchFilename(name) ==
  LET n == Len(name)
      k == Len(StrRemixNewsletter)
  IN  IF /\ n >= 10 + k + 1 + Len(StrMd)
         /\ AllDigits(SubSeq(name, 1, 4)) /\ name[5] = "-"
         /\ AllDigits(SubSeq(name, 6, 7)) /\ name[8] = "-"
         /\ AllDigits(SubSeq(name, 9, 10))
         /\ SubSeq(name, 11, 10 + k) = StrRemixNewsletter
         /\ AllDigits(SubSeq(name, 11 + k, n - Len(StrMd)))
         /\ EndsWith(name, StrMd)
      THEN Some(<<SubSeq(name, 1, 4), SubSeq(name, 6, 7), SubSeq(name, 9, 10)>>)
      ELSE None

\* Second loop: at most one record per directory
DeriveDir(newsletters, dirName, dirFiles) ==
  LET markdownFile == FindMarkdownFile(dirFiles)
      dirMatch == MatchDirName(dirName)
  IN  IF ~IsSome(markdownFile) THEN newsletters
      ELSE IF ~IsSome(dirMatch) THEN newsletters
      ELSE LET filenameMatch == MatchFilename(Get(markdownFile).name)
           IN  IF ~IsSome(filenameMatch) THEN newsletters
               ELSE Append(newsletters,
                           [number |-> ParseInt(Get(dirMatch)),
                            date |-> MakeDate(ParseInt(Get(filenameMatch)[1]),
                                              ParseInt(Get(filenameMatch)[2]) - 1,
                                              ParseInt(Get(filenameMatch)[3])),
                            path |-> Get(markdownFile).path,
                            filename |-> Get(markdownFile).name])

RECURSIVE DeriveDirs(_, _)
DeriveDirs(newsletters, newsletterDirs) ==
  IF Len(newsletterDirs) = 0 THEN newsletters
  ELSE DeriveDirs(DeriveDir(newsletters, Head(newsletterDirs)[1], Head(newsletterDirs)[2]),
                  Tail(newsletterDirs))

\* newsletters.sort((a, b) => b.number - a.number): stable, descending by number
InsertByNumberDesc(sorted, x) ==
  LET before == {i \in 1..Len(sorted) : sorted[i].number >= x.number}
      k == IF before = {} THEN 0 ELSE CHOOSE i \in before : \A j \in before : j <= i
  IN  SubSeq(sorted, 1, k) \o <<x>> \o SubSeq(sorted, k + 1, Len(sorted))

\* Mutant: the final sort is lost
SortNot(s) == s

RECURSIVE SortByNumberDesc(_)
SortByNumberDesc(s) ==
  IF Len(s) = 0 THEN <<>>
  ELSE InsertByNumberDesc(SortByNumberDesc(SubSeq(s, 1, Len(s) - 1)), s[Len(s)])

extractNewsletterMetadata(files) ==
  SortByNumberDesc(DeriveDirs(<<>>, GroupFiles(<<>>, files)))

\* -------------------------------------------------------------------------
\* buildRepositoryContents, after fetchTarball has delivered the entries
\* -------------------------------------------------------------------------
\* Mutant: the metadata is derived before the last entry has been parsed
buildFromPartialIndex(tarballData) ==
  LET parsed == parseTarball(tarballData)
      partial == parseTarball(SubSeq(tarballData, 1, Len(tarballData) - 1))
  IN  [files |-> parsed.files,
       newsletters |-> extractNewsletterMetadata(partial.files),
       contents |-> parsed.contents]

buildRepositoryContents(tarballData) ==
  LET parsed == parseTarball(tarballData)
  IN  [files |-> parsed.files,
       newsletters |-> extractNewsletterMetadata(parsed.files),
       contents |-> parsed.contents]

\* contents.getFileContent(path): contents.get(path) ?? null
getFileContent(contents, path) == MapGet(contents.contents, path)

\* -------------------------------------------------------------------------
\* Accessors, from the bundle fetchRepositoryContents resolved to
\* -------------------------------------------------------------------------
\* new TextDecoder().decode(bytes): UTF-8 to code points, for bytes below 0xE0
\* (one- and two-byte sequences); a malformed byte decodes to U+FFFD
RECURSIVE Utf8Decode(_)
Utf8Decode(bytes) ==
  IF Len(bytes) = 0 THEN <<>>
  ELSE LET b == bytes[1]
       IN  IF b < 128 THEN <<b>> \o Utf8Decode(Tail(bytes))
           ELSE IF /\ b >= 194 /\ b <= 223 /\ Len(bytes) >= 2
                   /\ bytes[2] >= 128 /\ bytes[2] <= 191
           THEN <<(b - 192) * 64 + (bytes[2] - 128)>> \o Utf8Decode(SubSeq(bytes, 3, Len(bytes)))
           ELSE <<65533>> \o Utf8Decode(Tail(bytes))

Ok(v) == [status |-> "ok", value |-> Some(v), error |-> None]
Throw(e) == [status |-> "error", value |-> None, error |-> Some(e)]

\* Errors: the message is kept as a tag; status is the HTTP status the message
\* quotes (0 when it quotes none); number and filename are what the message names
NewsletterNotFoundError(number) ==
  [name |-> "NewsletterNotFoundError", message |-> "Newsletter not found",
   status |-> 0, number |-> number, filename |-> <<>>]
ImageNotFoundError(newsletterNumber, filename) ==
  [name |-> "ImageNotFoundError", message |-> "Image not found",
   status |-> 0, number |-> newsletterNumber, filename |-> filename]
PlainError(message, status) ==
  [name |-> "Error", message |-> message, status |-> status, number |-> 0,
   filename |-> <<>>]

listNewsletters(contents) == Ok(contents.newsletters)

\* Mutant: the number is taken as a position in the listing
fetchNewsletterAt(contents, number) ==
  IF number > Len(contents.newsletters) THEN Throw(NewsletterNotFoundError(number))
  ELSE LET fileContent == getFileContent(contents, contents.newsletters[number].path)
       IN  IF ~IsSome(fileContent) THEN Throw(NewsletterNotFoundError(number))
           ELSE Ok(Utf8Decode(Get(fileContent)))

fetchNewsletter(contents, number) ==
  LET hits == {i \in 1..Len(contents.newsletters) : contents.newsletters[i].number = number}
  IN  IF hits = {} THEN Throw(NewsletterNotFoundError(number))
      ELSE LET newsletter == contents.newsletters[CHOOSE i \in hits : \A j \in hits : i <= j]
               fileContent == getFileContent(contents, newsletter.path)
           IN  IF ~IsSome(fileContent) THEN Throw(NewsletterNotFoundError(number))
               ELSE Ok(Utf8Decode(Get(fileContent)))

\* detectMimeType(filename) || "application/octet-stream"
StrPng == <<".", "p", "n", "g">>
MimeType(filename) ==
  IF EndsWith(filename, StrPng) THEN "image/png"
  ELSE IF EndsWith(filename, StrMd) THEN "text/markdown"
  ELSE "application/octet-stream"

\* Mutant: the image is looked up only for a number that is listed
fetchNewsletterImageOfListed(contents, number, filename) ==
  LET imagePath == StrNewsletterDash \o NumberToString(number) \o <<"/">> \o filename
      fileContent == getFileContent(contents, imagePath)
  IN  IF \/ ~IsSome(fileContent)
         \/ \A k \in 1..Len(contents.newsletters) : contents.newsletters[k].number # number
      THEN Throw(ImageNotFoundError(number, filename))
      ELSE Ok([name |-> filename, type |-> MimeType(filename), bytes |-> Get(fileContent)])

fetchNewsletterImage(contents, number, filename) ==
  LET imagePath == StrNewsletterDash \o NumberToString(number) \o <<"/">> \o filename
      fileContent == getFileContent(contents, imagePath)
  IN  IF ~IsSome(fileContent) THEN Throw(ImageNotFoundError(number, filename))
      ELSE Ok([name |-> filename, type |-> MimeType(filename), bytes |-> Get(fileContent)])

\* What the accessor named by a request makes of the bundle it was given
Accessor(request, contents) ==
  CASE request.kind = "listNewsletters" -> listNewsletters(contents)
    [] request.kind = "fetchNewsletter" -> fetchNewsletter(contents, request.number)
    [] request.kind = "fetchNewsletterImage" ->
         fetchNewsletterImage(contents, request.number, request.filename)
    [] request.kind = "fetchRepositoryContents" -> Ok(contents)

\* -------------------------------------------------------------------------
\* getConfig
\* -------------------------------------------------------------------------
\* Mutant: the owner/repo format check is lost
getConfigUnchecked(env) ==
  LET githubRepo == IF IsSome(env.GITHUB_REPO) /\ Len(Get(env.GITHUB_REPO)) > 0
                    THEN Get(env.GITHUB_REPO) ELSE StrDefaultRepo
      parts == Split(githubRepo, "/")
  IN  Ok([token |-> env.GITHUB_TOKEN, owner |-> parts[1],
          repo |-> Join(Tail(parts), <<"/">>)])

getConfig(env) ==
  LET githubRepo == IF IsSome(env.GITHUB_REPO) /\ Len(Get(env.GITHUB_REPO)) > 0
                    THEN Get(env.GITHUB_REPO) ELSE StrDefaultRepo
      parts == Split(githubRepo, "/")
      owner == parts[1]
      repo == Join(Tail(parts), <<"/">>)
  IN  IF Len(owner) = 0 \/ Len(repo) = 0
      THEN Throw(PlainError("GITHUB_REPO must be in format owner/repo", 0))
      ELSE Ok([token |-> env.GITHUB_TOKEN, owner |-> owner, repo |-> repo])

\* -------------------------------------------------------------------------
\* The upstream repository: the tar entries GitHub serves for a ref
\* -------------------------------------------------------------------------
FileEntry(name, bytes) == [name |-> name, type |-> "file", size |-> Len(bytes), bytes |-> bytes]
DirEntry(name) == [name |-> name, type |-> "directory", size |-> 0, bytes |-> <<>>]

\* GitHub prefixes every entry with "{repo}-{sha}/"
StrRoot == <<"r", "/">>
PathNewsletters == StrRoot \o StrNewsletters \o <<"/">>
StrPicPng == <<"p", "i", "c">> \o StrPng
DirName(n) == StrNewsletterDash \o NumberToString(n)
MdName(date, n) == date \o StrRemixNewsletter \o NumberToString(n) \o StrMd
MdPath(date, n) == PathNewsletters \o DirName(n) \o <<"/">> \o MdName(date, n)
PicPath(n) == PathNewsletters \o DirName(n) \o <<"/">> \o StrPicPng
StrJan1 == <<"2", "0", "2", "4", "-", "0", "1", "-", "0", "1">>
StrFeb1 == <<"2", "0", "2", "4", "-", "0", "2", "-", "0", "1">>
StrMar1 == <<"2", "0", "2", "4", "-", "0", "3", "-", "0", "1">>
StrFeb30 == <<"2", "0", "2", "4", "-", "0", "2", "-", "3", "0">>

Refs == {"main", "dev"}
Versions == {1, 2}

Repo(ref, version) ==
  CASE ref = "main" /\ version = 1 ->
         <<DirEntry(PathNewsletters),
           FileEntry(MdPath(StrJan1, 1), <<104, 105>>)>>
    [] ref = "main" /\ version = 2 ->
         <<DirEntry(PathNewsletters),
           FileEntry(MdPath(StrJan1, 1), <<104, 111>>),
           FileEntry(MdPath(StrFeb1, 2), <<195, 169>>),
           FileEntry(PicPath(2), <<137, 80>>)>>
    [] ref = "dev" /\ version = 1 ->
         <<FileEntry(MdPath(StrMar1, 3), <<100>>)>>
    [] ref = "dev" /\ version = 2 ->
         <<FileEntry(MdPath(StrMar1, 3), <<100, 101>>),
           FileEntry(PicPath(3), <<71>>)>>

\* -------------------------------------------------------------------------
\* Bounds and inputs
\* -------------------------------------------------------------------------
MaxCalls == 2
MaxTicks == 3

Calls == 1..MaxCalls

\* cache.TTL_MS
TTL_MS == 60 * 60 * 1000
\* The clock advances in steps of half a TTL
TickMs == TTL_MS \div 2
MaxAgeMs == MaxTicks * TickMs

Numbers == {2}
Filenames == {StrPicPng}

Request(kind, number, filename, ref) ==
  [kind |-> kind, number |-> number, filename |-> filename, ref |-> ref]

\* The accessors read the default ref; only fetchRepositoryContents takes one
Requests ==
  {Request("listNewsletters", 0, <<>>, "main")}
    \cup {Request("fetchNewsletter", n, <<>>, "main") : n \in Numbers}
    \cup {Request("fetchNewsletterImage", n, f, "main") : n \in Numbers, f \in Filenames}
    \cup {Request("fetchRepositoryContents", 0, <<>>, ref) : ref \in Refs}

\* process.env: a variable is unset (None) or set to a string
Tokens == {None, Some(<<"t">>)}
GithubRepos == {None, Some(<<"o">>), Some(<<"/", "r">>)}
\* process.env.NODE_ENV
NodeEnvs == {"development", "production"}
Truthy(o) == IsSome(o) /\ Len(Get(o)) > 0

\* Statuses of a response that is not ok
FailStatuses == {500}

\* -------------------------------------------------------------------------
\* State
\* -------------------------------------------------------------------------
VARIABLES
  env,                      \* process.env: GITHUB_TOKEN, GITHUB_REPO, NODE_ENV
  repositoryContentsCache,  \* the module-level cache: None or Some(bundle)
  upstream,                 \* the version GitHub holds of each ref
  call,                     \* the accessor calls in progress, one per slot
  ageMs,                    \* observed: time since the cache was last written
  refreshFailure,           \* observed: the TTL window after a fetch failed while
                            \* a payload was cached, and the fetches started in it
  router,                   \* the router module the server runs
  http,                     \* the route handler running for each call slot
  imageCache,               \* the file storage in the temporary directory
  uncached                  \* observed: what each call of the contents-API
                            \* fetchNewsletterImage gives without the file storage

vars == <<env, repositoryContentsCache, upstream, call, ageMs, refreshFailure, router, http, imageCache, uncached>>

NoObservation == [hadPayload |-> FALSE, stale |-> FALSE, afterFailure |-> FALSE]

\* What the caller of an accessor holds once the promise resolved: the value, in
\* the field of the accessor's return type
NoValue ==
  [newsletters |-> None, content |-> None, image |-> None, repositoryContents |-> None]

ValueOf(request, value) ==
  IF ~IsSome(value) THEN NoValue
  ELSE CASE request.kind = "listNewsletters" -> [NoValue EXCEPT !.newsletters = value]
         [] request.kind = "fetchNewsletter" -> [NoValue EXCEPT !.content = value]
         [] request.kind = "fetchNewsletterImage" -> [NoValue EXCEPT !.image = value]
         [] request.kind = "fetchRepositoryContents" ->
              [NoValue EXCEPT !.repositoryContents = value]

Idle ==
  [pc |-> "idle", request |-> None, fetch |-> None, tarballData |-> None,
   bundle |-> None, value |-> NoValue, error |-> None, seen |-> NoObservation]

\* The promise of the accessor settled: resolved from a bundle, or rejected
Settled(request, contents, seen) ==
  LET result == Accessor(request, contents)
  IN  [pc |-> IF result.status = "ok" THEN "returned" ELSE "threw",
       request |-> Some(request), fetch |-> None, tarballData |-> None,
       bundle |-> Some(contents), value |-> ValueOf(request, result.value),
       error |-> result.error,
       seen |-> seen]

Rejected(request, error, seen) ==
  [pc |-> "threw", request |-> Some(request), fetch |-> None, tarballData |-> None,
   bundle |-> None, value |-> NoValue, error |-> Some(error), seen |-> seen]

\* No call has been compared in the slot
NoOutcome == [pc |-> "idle", image |-> None, error |-> None]

\* No handler runs in the slot: the accessor is called directly
NoHandler ==
  [route |-> "none", pc |-> "idle", newsletters |-> None, listedFrom |-> None,
   contents |-> None, previews |-> <<>>, status |-> 0]

Init ==
  /\ env \in [GITHUB_TOKEN : Tokens, GITHUB_REPO : GithubRepos, NODE_ENV : NodeEnvs]
  /\ repositoryContentsCache = None
  /\ upstream \in [Refs -> Versions]
  /\ call = [c \in Calls |-> Idle]
  /\ ageMs = 0
  /\ refreshFailure = None
  /\ router = "router.ts"
  /\ http = [c \in Calls |-> NoHandler]
  /\ imageCache = <<>>
  /\ uncached = [c \in Calls |-> NoOutcome]

\* -------------------------------------------------------------------------
\* fetchRepositoryContents, as each accessor calls it
\* -------------------------------------------------------------------------
\* Mutant: the cache check is lost, every call fetches
CacheHitNever(cache) == FALSE

\* if (repositoryContentsCache)
CacheHit(cache) == IsSome(cache)

\* Mutant: a failed build is cached as an empty bundle
CacheFailureAsEmptyBundle(cache) ==
  Some([files |-> <<>>, newsletters |-> <<>>, contents |-> <<>>])

\* Mutant: a failed build drops the cached payload
CacheDroppedOnFailure(cache) == None

\* The cache after buildRepositoryContents rejected: the assignment did not run
CacheAfterFailure(cache) == cache

\* Mutant: the continuation of a settled promise waits for its turn among the
\* other events
QuiescentAlways == TRUE

\* A settled promise runs its continuation as a microtask, before the event
\* loop takes the next event: nothing else happens until the caller has the result
Quiescent == \A c \in Calls : call[c].pc \notin {"returned", "threw"}

\* The body of an accessor call in slot c, up to the first await that suspends
Invoke(c, request) ==
  /\ LET seen == [hadPayload |-> IsSome(repositoryContentsCache),
                  stale |-> IsSome(repositoryContentsCache) /\ ageMs >= TTL_MS,
                  afterFailure |-> IsSome(refreshFailure)]
         config == getConfig(env)
     IN  IF CacheHit(repositoryContentsCache)
         THEN /\ call' = [call EXCEPT ![c] = Settled(request, Get(repositoryContentsCache), seen)]
              /\ UNCHANGED refreshFailure
         ELSE IF config.status = "error"
         THEN /\ call' = [call EXCEPT ![c] = Rejected(request, Get(config.error), seen)]
              /\ UNCHANGED refreshFailure
         ELSE IF ~Truthy(Get(config.value).token)
         THEN /\ call' = [call EXCEPT ![c] =
                   Rejected(request,
                            PlainError("GITHUB_TOKEN environment variable is required", 0),
                            seen)]
              /\ UNCHANGED refreshFailure
         ELSE /\ call' = [call EXCEPT ![c] =
                   [Idle EXCEPT !.pc = "fetching", !.request = Some(request),
                                !.fetch = Some([owner |-> Get(config.value).owner,
                                                repo |-> Get(config.value).repo,
                                                ref |-> request.ref,
                                                token |-> Get(Get(config.value).token)]),
                                !.seen = seen]]
              /\ refreshFailure' =
                   IF IsSome(refreshFailure)
                   THEN Some([Get(refreshFailure) EXCEPT
                                !.starts = IF @ < 2 THEN @ + 1 ELSE @])
                   ELSE refreshFailure
  /\ UNCHANGED <<env, repositoryContentsCache, upstream, ageMs>>

\* An accessor is called
StartCall(c, request) ==
  /\ Quiescent
  /\ call[c].pc = "idle"
  /\ Invoke(c, request)
  /\ UNCHANGED <<router, http, imageCache, uncached>>

\* buildRepositoryContents rejects: fetchRepositoryContents rethrows to its caller
Fail(c, error) ==
  /\ call' = [call EXCEPT ![c] = Rejected(Get(call[c].request), error, call[c].seen)]
  /\ repositoryContentsCache' = CacheAfterFailure(repositoryContentsCache)
  /\ refreshFailure' =
       IF IsSome(repositoryContentsCache)
       THEN Some([ageMs |-> 0, starts |-> 0])
       ELSE refreshFailure
  /\ UNCHANGED <<env, upstream, ageMs>>

\* fetchTarball: the response to the request arrives
FetchResponse(c) ==
  /\ Quiescent
  /\ call[c].pc = "fetching"
  /\ \E status \in {200} \cup FailStatuses :
       IF status = 200
       THEN /\ call' = [call EXCEPT ![c] =
                 [@ EXCEPT !.pc = "parsing",
                           !.tarballData =
                             Some(Repo(Get(call[c].fetch).ref,
                                       upstream[Get(call[c].fetch).ref]))]]
            /\ UNCHANGED <<env, repositoryContentsCache, upstream, ageMs, refreshFailure>>
       ELSE Fail(c, PlainError("Failed to fetch repository tarball", status))
  /\ UNCHANGED <<router, http, imageCache, uncached>>

\* gunzip, parseTarball and extractNewsletterMetadata finish; the cache is assigned
BuildComplete(c) ==
  /\ Quiescent
  /\ call[c].pc = "parsing"
  /\ \/ Fail(c, PlainError("incorrect header check", 0))
     \/ LET contents == buildRepositoryContents(Get(call[c].tarballData))
        IN  /\ repositoryContentsCache' = Some(contents)
            /\ ageMs' = 0
            /\ call' = [call EXCEPT ![c] =
                 Settled(Get(call[c].request), contents, call[c].seen)]
            /\ UNCHANGED <<env, upstream, refreshFailure>>
  /\ UNCHANGED <<router, http, imageCache, uncached>>

\* The caller has taken the result
Return(c) ==
  /\ call[c].pc \in {"returned", "threw"}
  /\ call' = [call EXCEPT ![c] = Idle]
  /\ UNCHANGED <<env, repositoryContentsCache, upstream, ageMs, refreshFailure, router, http, imageCache, uncached>>

\* A push to the upstream repository changes what a ref holds
Push(ref) ==
  /\ Quiescent
  /\ upstream' = [upstream EXCEPT ![ref] = IF @ = 1 THEN 2 ELSE 1]
  /\ UNCHANGED <<env, repositoryContentsCache, call, ageMs, refreshFailure, router, http, imageCache, uncached>>

\* Time passes
Tick ==
  /\ Quiescent
  /\ (IsSome(repositoryContentsCache) /\ ageMs < MaxAgeMs) \/ IsSome(refreshFailure)
  /\ ageMs' = IF IsSome(repositoryContentsCache) /\ ageMs < MaxAgeMs
              THEN ageMs + TickMs ELSE ageMs
  /\ refreshFailure' =
       IF IsSome(refreshFailure) /\ Get(refreshFailure).ageMs + TickMs < TTL_MS
       THEN Some([Get(refreshFailure) EXCEPT !.ageMs = @ + TickMs])
       ELSE None
  /\ UNCHANGED <<env, repositoryContentsCache, upstream, call, router, http, imageCache, uncached>>

Next ==
  \/ \E c \in Calls : \E request \in Requests : StartCall(c, request)
  \/ \E c \in Calls : FetchResponse(c)
  \/ \E c \in Calls : BuildComplete(c)
  \/ \E c \in Calls : Return(c)
  \/ \E ref \in Refs : Push(ref)
  \/ Tick

Spec == Init /\ [][Next]_vars

\* The event loop delivers every response and runs every continuation, and
\* requests keep arriving
FairSpec ==
  /\ Spec
  /\ WF_vars(\E c \in Calls : \E request \in Requests : StartCall(c, request))
  /\ \A c \in Calls :
       WF_vars(FetchResponse(c)) /\ WF_vars(BuildComplete(c)) /\ WF_vars(Return(c))

\* -------------------------------------------------------------------------
\* The build on an arbitrary tarball: a call has received its response, and the
\* body is any sequence of distinct entries of the pool
\* -------------------------------------------------------------------------
MaxEntries == 3

StrNewsletter01 == StrNewsletterDash \o <<"0", "1">>
StrNewsletterX == StrNewsletterDash \o <<"x">>
StrNotesMd == <<"n", "o", "t", "e", "s">> \o StrMd

ArchiveEntries ==
  << \* two well-formed newsletters
     FileEntry(MdPath(StrJan1, 1), <<104, 105>>),
     FileEntry(MdPath(StrFeb1, 2), <<195, 169>>),
     \* a directory whose number is written with a leading zero, dated later
     FileEntry(PathNewsletters \o StrNewsletter01 \o <<"/">> \o MdName(StrMar1, 1), <<111>>),
     \* an image, and a markdown file that is not a dated newsletter file
     FileEntry(PicPath(2), <<137, 80>>),
     FileEntry(PathNewsletters \o DirName(1) \o <<"/">> \o StrNotesMd, <<110>>),
     \* a directory name without a number
     FileEntry(PathNewsletters \o StrNewsletterX \o <<"/">> \o MdName(StrJan1, 1), <<120>>),
     \* a directory entry, a file outside newsletters/, a file directly in
     \* newsletters/, and newsletters/ without a folder above it
     DirEntry(PathNewsletters \o DirName(1) \o <<"/">>),
     FileEntry(StrRoot \o StrNotesMd, <<114>>),
     FileEntry(PathNewsletters \o StrNotesMd, <<116>>),
     FileEntry(StrNewsletters \o <<"/">> \o DirName(2) \o <<"/">> \o MdName(StrFeb1, 2),
               <<48>>),
     \* a name with a line terminator in it
     FileEntry(PathNewsletters \o <<"a", "\n", "b">>, <<10>>),
     \* a dated file whose day is not a day of its month, and a dated file whose
     \* trailing number is not the number of its directory
     FileEntry(MdPath(StrFeb30, 2), <<51>>),
     FileEntry(PathNewsletters \o DirName(1) \o <<"/">> \o MdName(StrJan1, 2), <<55>>) >>

Archives ==
  {[i \in 1..Len(picks) |-> ArchiveEntries[picks[i]]] :
     picks \in {q \in UNION {[1..n -> 1..Len(ArchiveEntries)] : n \in 0..MaxEntries} :
                  \A i, j \in 1..Len(q) : i # j => q[i] # q[j]}}

BuildNumbers == {1, 2}
\* An image, and the markdown file of the directory with the leading zero
BuildFilenames == {StrPicPng, MdName(StrMar1, 1)}

BuildRequests ==
  {Request("listNewsletters", 0, <<>>, "main")}
    \cup {Request("fetchNewsletter", n, <<>>, "main") : n \in BuildNumbers}
    \cup {Request("fetchNewsletterImage", n, f, "main") :
            n \in BuildNumbers, f \in BuildFilenames}
    \cup {Request("fetchRepositoryContents", 0, <<>>, ref) : ref \in Refs}

BuildInit ==
  /\ env = [GITHUB_TOKEN |-> Some(<<"t">>), GITHUB_REPO |-> None, NODE_ENV |-> "production"]
  /\ repositoryContentsCache = None
  /\ upstream = [ref \in Refs |-> 1]
  /\ \E archive \in Archives :
       call = [c \in Calls |->
                IF c = 1
                THEN [Idle EXCEPT !.pc = "parsing",
                                  !.request = Some(Request("listNewsletters", 0, <<>>, "main")),
                                  !.fetch = Some([owner |-> Get(getConfig(env).value).owner,
                                                  repo |-> Get(getConfig(env).value).repo,
                                                  ref |-> "main",
                                                  token |-> Get(env.GITHUB_TOKEN)]),
                                  !.tarballData = Some(archive)]
                ELSE Idle]
  /\ ageMs = 0
  /\ refreshFailure = None
  /\ router = "router.ts"
  /\ http = [c \in Calls |-> NoHandler]
  /\ imageCache = <<>>
  /\ uncached = [c \in Calls |-> NoOutcome]

\* No other call is made while a build runs
BuildNext ==
  \/ \E c \in Calls : \E request \in BuildRequests :
       (\A d \in Calls : call[d].pc = "idle") /\ StartCall(c, request)
  \/ \E c \in Calls : FetchResponse(c)
  \/ \E c \in Calls : BuildComplete(c)
  \/ \E c \in Calls : Return(c)

BuildSpec == BuildInit /\ [][BuildNext]_vars

\* -------------------------------------------------------------------------
\* The HTTP layer: the route handlers of router.ts and of the router that
\* answers by the error message, over the accessors
\* -------------------------------------------------------------------------
Routers == {"router.ts", "part_001"}

\* parseInt(s, 10): an optional sign, then the leading run of digits; None is NaN
RECURSIVE LeadingDigits(_)
LeadingDigits(s) ==
  IF Len(s) = 0 \/ Head(s) \notin Digits THEN <<>>
  ELSE <<Head(s)>> \o LeadingDigits(Tail(s))

parseInt(s) ==
  LET signed == Len(s) > 0 /\ Head(s) \in {"-", "+"}
      digits == LeadingDigits(IF signed THEN Tail(s) ELSE s)
  IN  IF Len(digits) = 0 THEN None
      ELSE Some(IF signed /\ Head(s) = "-" THEN 0 - ParseInt(digits) ELSE ParseInt(digits))

\* if (!numberParam) ...; if (!isFinite(number) || number < 1) ...
InvalidNumber(numberParam) ==
  \/ Len(numberParam) = 0
  \/ ~IsSome(parseInt(numberParam))
  \/ Get(parseInt(numberParam)) < 1

\* An error that leaves router.fetch is caught by the server
ServerCatch(error) == 500

\* The catch blocks of router.ts: a not-found error of the route's own class is
\* answered, anything else is thrown again
HomeCatch(error) == 500
NewsletterCatch(error) ==
  IF error.name = "NewsletterNotFoundError" THEN 404 ELSE ServerCatch(error)
NewsletterImageCatch(error) ==
  IF error.name = "ImageNotFoundError" THEN 404 ELSE ServerCatch(error)

\* error.message.includes("GITHUB_TOKEN"), error.message.includes("not found")
MessageNamesToken(error) == error.message = "GITHUB_TOKEN environment variable is required"
MessageSaysNotFound(error) == error.message \in {"Newsletter not found", "Image not found"}

\* The catch blocks of the newsletter and image routes that go by the message:
\* status starts as 404 and only a message naming GITHUB_TOKEN changes it
MessageCatch(error) ==
  IF MessageNamesToken(error) THEN 500
  ELSE IF MessageSaysNotFound(error) THEN 404
  ELSE 404

Catch(route, error) ==
  CASE route = "home" -> HomeCatch(error)
    [] route = "newsletter" ->
         IF router = "router.ts" THEN NewsletterCatch(error) ELSE MessageCatch(error)
    [] route = "newsletterImage" ->
         IF router = "router.ts" THEN NewsletterImageCatch(error) ELSE MessageCatch(error)

Handling(route, pc) == [NoHandler EXCEPT !.route = route, !.pc = pc]
Answered(route, status) == [NoHandler EXCEPT !.route = route, !.pc = "done", !.status = status]

\* The preview of each listed item is made from contents.getFileContent(path)
Previews(newsletters, contents) ==
  [k \in 1..Len(newsletters) |->
     LET fileContent == getFileContent(contents, newsletters[k].path)
     IN  IF IsSome(fileContent) THEN Some(Utf8Decode(Get(fileContent))) ELSE None]

\* GET /: the handler runs up to await listNewsletters()
home(c) ==
  /\ Quiescent
  /\ call[c].pc = "idle" /\ http[c].pc = "idle"
  /\ Invoke(c, Request("listNewsletters", 0, <<>>, "main"))
  /\ http' = [http EXCEPT ![c] = Handling("home", "listing")]
  /\ UNCHANGED <<router, imageCache, uncached>>

\* GET /newsletter/:number: the handler runs up to await fetchNewsletter(number)
newsletter(c, numberParam) ==
  /\ Quiescent
  /\ call[c].pc = "idle" /\ http[c].pc = "idle"
  /\ IF InvalidNumber(numberParam)
     THEN /\ http' = [http EXCEPT ![c] = Answered("newsletter", 400)]
          /\ UNCHANGED <<env, repositoryContentsCache, upstream, call, ageMs, refreshFailure>>
     ELSE /\ Invoke(c, Request("fetchNewsletter", Get(parseInt(numberParam)), <<>>, "main"))
          /\ http' = [http EXCEPT ![c] = Handling("newsletter", "awaiting")]
  /\ UNCHANGED <<router, imageCache, uncached>>

\* GET /newsletter/:number/image/:filename: the handler runs up to
\* await fetchNewsletterImage(number, filename)
newsletterImage(c, numberParam, filename) ==
  /\ Quiescent
  /\ call[c].pc = "idle" /\ http[c].pc = "idle"
  /\ IF Len(filename) = 0 \/ InvalidNumber(numberParam)
     THEN /\ http' = [http EXCEPT ![c] = Answered("newsletterImage", 400)]
          /\ UNCHANGED <<env, repositoryContentsCache, upstream, call, ageMs, refreshFailure>>
     ELSE /\ Invoke(c, Request("fetchNewsletterImage", Get(parseInt(numberParam)),
                               filename, "main"))
          /\ http' = [http EXCEPT ![c] = Handling("newsletterImage", "awaiting")]
  /\ UNCHANGED <<router, imageCache, uncached>>

\* The awaited accessor settled: the handler runs on, to its next await or to
\* its response
Resume(c) ==
  /\ call[c].pc \in {"returned", "threw"}
  /\ http[c].pc \in {"listing", "reading", "awaiting"}
  /\ LET route == http[c].route
     IN  IF call[c].pc = "threw"
         THEN /\ http' = [http EXCEPT ![c] = Answered(route, Catch(route, Get(call[c].error)))]
              /\ call' = [call EXCEPT ![c] = Idle]
              /\ UNCHANGED <<env, repositoryContentsCache, upstream, ageMs, refreshFailure>>
         ELSE IF http[c].pc = "listing" /\ router = "router.ts"
         THEN \* let contents = await fetchRepositoryContents()
              /\ Invoke(c, Request("fetchRepositoryContents", 0, <<>>, "main"))
              /\ http' = [http EXCEPT ![c] =
                   [Handling("home", "reading") EXCEPT
                      !.newsletters = call[c].value.newsletters,
                      !.listedFrom = call[c].bundle]]
         ELSE IF http[c].pc = "listing"
         THEN /\ http' = [http EXCEPT ![c] =
                   [Answered("home", 200) EXCEPT
                      !.newsletters = call[c].value.newsletters,
                      !.listedFrom = call[c].bundle]]
              /\ call' = [call EXCEPT ![c] = Idle]
              /\ UNCHANGED <<env, repositoryContentsCache, upstream, ageMs, refreshFailure>>
         ELSE IF http[c].pc = "reading"
         THEN /\ http' = [http EXCEPT ![c] =
                   [Answered("home", 200) EXCEPT
                      !.newsletters = http[c].newsletters,
                      !.listedFrom = http[c].listedFrom,
                      !.contents = call[c].value.repositoryContents,
                      !.previews = Previews(Get(http[c].newsletters),
                                            Get(call[c].value.repositoryContents))]]
              /\ call' = [call EXCEPT ![c] = Idle]
              /\ UNCHANGED <<env, repositoryContentsCache, upstream, ageMs, refreshFailure>>
         ELSE /\ http' = [http EXCEPT ![c] = Answered(route, 200)]
              /\ call' = [call EXCEPT ![c] = Idle]
              /\ UNCHANGED <<env, repositoryContentsCache, upstream, ageMs, refreshFailure>>
  /\ UNCHANGED <<router, imageCache, uncached>>

\* The response has been written to the socket
Respond(c) ==
  /\ Quiescent
  /\ http[c].pc = "done"
  /\ http' = [http EXCEPT ![c] = NoHandler]
  /\ UNCHANGED <<env, repositoryContentsCache, upstream, call, ageMs, refreshFailure, router, imageCache, uncached>>

\* The :number and :filename parameters of the requests
NumberParams == {<<"2">>, <<"0">>, <<"x">>}
ImageNumberParams == {<<"2">>, <<"x">>}

HttpInit ==
  /\ env \in [GITHUB_TOKEN : Tokens, GITHUB_REPO : {None}, NODE_ENV : {"production"}]
  /\ repositoryContentsCache = None
  /\ upstream \in [Refs -> Versions]
  /\ upstream["dev"] = 1
  /\ call = [c \in Calls |-> Idle]
  /\ ageMs = 0
  /\ refreshFailure = None
  /\ router \in Routers
  /\ http = [c \in Calls |-> NoHandler]
  /\ imageCache = <<>>
  /\ uncached = [c \in Calls |-> NoOutcome]

HttpNext ==
  \/ \E c \in Calls : home(c)
  \/ \E c \in Calls : \E numberParam \in NumberParams : newsletter(c, numberParam)
  \/ \E c \in Calls : \E numberParam \in ImageNumberParams : \E filename \in Filenames :
       newsletterImage(c, numberParam, filename)
  \/ \E c \in Calls : FetchResponse(c)
  \/ \E c \in Calls : BuildComplete(c)
  \/ \E c \in Calls : Resume(c)
  \/ \E c \in Calls : Respond(c)
  \/ Push("main")

HttpSpec == HttpInit /\ [][HttpNext]_vars

\* -------------------------------------------------------------------------
\* listNewsletters over the GitHub contents API (the second implementation in
\* github.ts), on the repository an archive is the tarball of
\* -------------------------------------------------------------------------
\* GET /repos/{owner}/{repo}/contents/{path}: the items directly in a directory,
\* in the order of their first file in the archive
ContentsItem(listing, dirPath, entry) ==
  LET prefix == StrRoot \o dirPath \o <<"/">>
  IN  IF entry.type # "file" \/ ~StartsWith(entry.name, prefix) THEN listing
      ELSE LET parts == Split(SubSeq(entry.name, Len(prefix) + 1, Len(entry.name)), "/")
               item == [type |-> IF Len(parts) > 1 THEN "dir" ELSE "file",
                        name |-> parts[1],
                        path |-> dirPath \o <<"/">> \o parts[1]]
           IN  IF parts[1] = <<>> \/ \E i \in 1..Len(listing) : listing[i].name = item.name
               THEN listing
               ELSE Append(listing, item)

RECURSIVE ContentsItems(_, _, _)
ContentsItems(listing, dirPath, entries) ==
  IF Len(entries) = 0 THEN listing
  ELSE ContentsItems(ContentsItem(listing, dirPath, Head(entries)), dirPath, Tail(entries))

fetchGitHubContentsArray(repository, path) == ContentsItems(<<>>, path, repository)

\* newsletters.sort((a, b) => b.date.getTime() - a.date.getTime())
DateOrdinal(date) == (date.year * 12 + (date.month - 1)) * 31 + (date.day - 1)

InsertByDateDesc(sorted, x) ==
  LET before == {i \in 1..Len(sorted) : DateOrdinal(sorted[i].date) >= DateOrdinal(x.date)}
      k == IF before = {} THEN 0 ELSE CHOOSE i \in before : \A j \in before : j <= i
  IN  SubSeq(sorted, 1, k) \o <<x>> \o SubSeq(sorted, k + 1, Len(sorted))

RECURSIVE SortByDateDesc(_)
SortByDateDesc(s) ==
  IF Len(s) = 0 THEN <<>>
  ELSE InsertByDateDesc(SortByDateDesc(SubSeq(s, 1, Len(s) - 1)), s[Len(s)])

\* One pass of the loop over the newsletter-* directories
ListDir(newsletters, repository, dir) ==
  LET dirContents == fetchGitHubContentsArray(repository, dir.path)
      hits == {i \in 1..Len(dirContents) :
                 dirContents[i].type = "file" /\ EndsWith(dirContents[i].name, StrMd)}
      dirMatch == MatchDirName(dir.name)
  IN  IF hits = {} THEN newsletters
      ELSE IF ~IsSome(dirMatch) THEN newsletters
      ELSE LET markdownFile == dirContents[CHOOSE i \in hits : \A j \in hits : i <= j]
               filenameMatch == MatchFilename(markdownFile.name)
           IN  IF ~IsSome(filenameMatch) THEN newsletters
               ELSE Append(newsletters,
                           [number |-> ParseInt(Get(dirMatch)),
                            date |-> MakeDate(ParseInt(Get(filenameMatch)[1]),
                                              ParseInt(Get(filenameMatch)[2]) - 1,
                                              ParseInt(Get(filenameMatch)[3])),
                            path |-> markdownFile.path,
                            filename |-> markdownFile.name])

RECURSIVE ListDirs(_, _, _)
ListDirs(newsletters, repository, dirs) ==
  IF Len(dirs) = 0 THEN newsletters
  ELSE ListDirs(ListDir(newsletters, repository, Head(dirs)), repository, Tail(dirs))

listNewslettersFromContentsApi(repository) ==
  LET contents == fetchGitHubContentsArray(repository, StrNewsletters)
      newsletterDirs ==
        SelectSeq(contents,
                  LAMBDA item : item.type = "dir" /\ StartsWith(item.name, StrNewsletterDash))
  IN  SortByDateDesc(ListDirs(<<>>, repository, newsletterDirs))

\* -------------------------------------------------------------------------
\* fetchNewsletterImage over the GitHub contents API, with the file storage in
\* the temporary directory in front of it
\* -------------------------------------------------------------------------
getImageCacheKey(number, filename) ==
  StrNewsletterDash \o NumberToString(number) \o <<"/">> \o filename

\* The bytes the contents API and the download URL serve for a file path
RepositoryFile(repository, path) ==
  LET hits == {i \in 1..Len(repository) :
                 repository[i].type = "file" /\ repository[i].name = StrRoot \o path}
  IN  IF hits = {} THEN None
      ELSE Some(repository[CHOOSE i \in hits : \A j \in hits : i <= j].bytes)

DirectoryNotFoundError(number) ==
  [name |-> "Error", message |-> "Newsletter not found", status |-> 0,
   number |-> number, filename |-> <<>>]

\* The function after the storage lookup, on the repository as GitHub holds
\* it; status is what GitHub answers the requests with
FetchImageFromContentsApi(token, repository, status, number, filename) ==
  IF ~Truthy(token)
  THEN Throw(PlainError("GITHUB_TOKEN environment variable is required", 0))
  ELSE IF status # 200
  THEN Throw(PlainError("Failed to fetch GitHub contents", status))
  ELSE LET contents == fetchGitHubContentsArray(repository, StrNewsletters)
           dirName == StrNewsletterDash \o NumberToString(number)
           hits == {i \in 1..Len(contents) :
                      contents[i].type = "dir" /\ contents[i].name = dirName}
       IN  IF hits = {} THEN Throw(DirectoryNotFoundError(number))
           ELSE LET newsletterDir == contents[CHOOSE i \in hits : \A j \in hits : i <= j]
                    imagePath == newsletterDir.path \o <<"/">> \o filename
                    fileData == RepositoryFile(repository, imagePath)
                IN  IF ~IsSome(fileData)
                    THEN Throw(PlainError("Failed to fetch GitHub contents", 404))
                    ELSE Ok([name |-> filename, type |-> MimeType(filename),
                             bytes |-> Get(fileData)])

OutcomeOf(result) ==
  [pc |-> IF result.status = "ok" THEN "returned" ELSE "threw",
   image |-> result.value, error |-> result.error]

ImageSettled(request, result) ==
  [Idle EXCEPT !.pc = OutcomeOf(result).pc, !.request = Some(request),
               !.value = ValueOf(request, result.value), !.error = result.error]

\* fetchNewsletterImage is called: the storage lookup, the token check and the
\* first request to the contents API
ImageCall(c, number, filename) ==
  /\ Quiescent
  /\ call[c].pc = "idle"
  /\ LET request == Request("fetchNewsletterImage", number, filename, "main")
         cachedFile == MapGet(imageCache, getImageCacheKey(number, filename))
         repository == Repo("main", upstream["main"])
     IN  IF IsSome(cachedFile)
         THEN /\ call' = [call EXCEPT ![c] = ImageSettled(request, Ok(Get(cachedFile)))]
              /\ \E status \in {200} \cup FailStatuses :
                   uncached' = [uncached EXCEPT ![c] =
                     OutcomeOf(FetchImageFromContentsApi(env.GITHUB_TOKEN, repository,
                                                         status, number, filename))]
         ELSE IF ~Truthy(env.GITHUB_TOKEN)
         THEN LET result == FetchImageFromContentsApi(env.GITHUB_TOKEN, repository,
                                                      200, number, filename)
              IN  /\ call' = [call EXCEPT ![c] = ImageSettled(request, result)]
                  /\ uncached' = [uncached EXCEPT ![c] = OutcomeOf(result)]
         ELSE /\ call' = [call EXCEPT ![c] =
                   [Idle EXCEPT !.pc = "fetching", !.request = Some(request)]]
              /\ uncached' = [uncached EXCEPT ![c] = [NoOutcome EXCEPT !.pc = "fetching"]]
  /\ UNCHANGED <<env, repositoryContentsCache, upstream, ageMs, refreshFailure, router, http,
                 imageCache>>

\* GitHub has answered: the file is built and stored, or the call fails
ImageResponse(c) ==
  /\ Quiescent
  /\ call[c].pc = "fetching"
  /\ \E status \in {200} \cup FailStatuses :
       LET request == Get(call[c].request)
           result == FetchImageFromContentsApi(env.GITHUB_TOKEN,
                                               Repo("main", upstream["main"]), status,
                                               request.number, request.filename)
       IN  /\ call' = [call EXCEPT ![c] = ImageSettled(request, result)]
           /\ uncached' = [uncached EXCEPT ![c] = OutcomeOf(result)]
           /\ imageCache' =
                IF result.status = "ok"
                THEN MapSet(imageCache, getImageCacheKey(request.number, request.filename),
                            Get(result.value))
                ELSE imageCache
  /\ UNCHANGED <<env, repositoryContentsCache, upstream, ageMs, refreshFailure, router, http>>

\* The process is started again with another GITHUB_TOKEN: the temporary
\* directory is kept
Restart(token) ==
  /\ \A c \in Calls : call[c].pc = "idle"
  /\ token # env.GITHUB_TOKEN
  /\ env' = [env EXCEPT !.GITHUB_TOKEN = token]
  /\ UNCHANGED <<repositoryContentsCache, upstream, call, ageMs, refreshFailure, router, http,
                 imageCache, uncached>>

ImageInit ==
  /\ env \in [GITHUB_TOKEN : Tokens, GITHUB_REPO : {None}, NODE_ENV : {"production"}]
  /\ repositoryContentsCache = None
  /\ upstream \in [Refs -> Versions]
  /\ upstream["dev"] = 1
  /\ call = [c \in Calls |-> Idle]
  /\ ageMs = 0
  /\ refreshFailure = None
  /\ router = "part_001"
  /\ http = [c \in Calls |-> NoHandler]
  /\ imageCache = <<>>
  /\ uncached = [c \in Calls |-> NoOutcome]

ImageNext ==
  \/ \E c \in Calls : \E number \in Numbers : \E filename \in Filenames :
       ImageCall(c, number, filename)
  \/ \E c \in Calls : ImageResponse(c)
  \/ \E c \in Calls : Return(c)
  \/ \E token \in Tokens : Restart(token)
  \/ Push("main")

ImageSpec == ImageInit /\ [][ImageNext]_vars

\* -------------------------------------------------------------------------
\* Vocabulary of the properties
\* -------------------------------------------------------------------------
InFlight == {c \in Calls : call[c].pc \in {"fetching", "parsing"}}
SettledCalls == {c \in Calls : call[c].pc \in {"returned", "threw"}}

Fresh == IsSome(repositoryContentsCache) /\ ageMs < TTL_MS
Stale == IsSome(repositoryContentsCache) /\ ageMs >= TTL_MS

\* In this step call c is made
Started(c) == call[c].pc = "idle" /\ call'[c].pc # "idle"
\* In this step call c sends its request to the tarball endpoint
IssuedFetch(c) == call[c].pc # "fetching" /\ call'[c].pc = "fetching"
FetchesIssued == {c \in Calls : IssuedFetch(c)}
\* In this step the fetch, decompression or parse of call c fails
\* (fetchRepositoryContents rejects: the call settles without a bundle)
FetchFailed(c) == c \in InFlight /\ call'[c].pc = "threw" /\ ~IsSome(call'[c].bundle)

\* The fetches whose completion would replace a payload that is already cached
Refreshes == {c \in InFlight : IsSome(repositoryContentsCache)}

\* The bundle the default ref would give if it were fetched now
CurrentMain == buildRepositoryContents(Repo("main", upstream["main"]))

\* Every piece of bundle b comes from one and the same tarball
FromOneTarball(b) ==
  \E ref \in Refs, version \in Versions :
    LET parsed == parseTarball(Repo(ref, version))
    IN  /\ b.files = parsed.files
        /\ b.contents = parsed.contents
        /\ b.newsletters = extractNewsletterMetadata(parsed.files)

\* -------------------------------------------------------------------------
\* C1: once the cache is populated, every accessor call made while the entry
\* is younger than the TTL is answered from the cached bundle and sends no
\* request upstream.
\* -------------------------------------------------------------------------
C1_FreshReadServedFromCache ==
  [][\A c \in Calls :
       (Started(c) /\ Fresh) =>
         /\ FetchesIssued = {}
         /\ call'[c].bundle = repositoryContentsCache
         /\ repositoryContentsCache' = repositoryContentsCache]_vars

C1_Witness ==
  \E c \in Calls :
    /\ call[c].pc = "returned"
    /\ Get(call[c].request).kind = "listNewsletters"
    /\ call[c].seen.hadPayload /\ ~call[c].seen.stale

C3_StaleReadReturnsAtOnce ==
  [][\A c \in Calls : \A request \in Requests :
       (Started(c) /\ Stale /\ call'[c].request = Some(request)) =>
         /\ c \in SettledCalls'
         /\ call'[c].value =
              ValueOf(request, Accessor(request, Get(repositoryContentsCache)).value)
         /\ call'[c].error = Accessor(request, Get(repositoryContentsCache)).error]_vars

C3_Witness ==
  \E c \in Calls :
    /\ call[c].pc = "returned"
    /\ call[c].seen.stale
    /\ Get(call[c].request).ref = "main"
    /\ call[c].bundle # Some(CurrentMain)

C5_BundlesAreWhole ==
  /\ IsSome(repositoryContentsCache) => FromOneTarball(Get(repositoryContentsCache))
  /\ \A c \in Calls : IsSome(call[c].bundle) => FromOneTarball(Get(call[c].bundle))

\* A read answered from the cache while another call is building a different bundle
C5_Witness ==
  \E c, d \in Calls :
    /\ call[c].pc = "returned" /\ call[c].seen.hadPayload
    /\ call[d].pc = "parsing"
    /\ call[c].bundle # Some(buildRepositoryContents(Get(call[d].tarballData)))

Outdated ==
  /\ Stale /\ InFlight = {}
  /\ \E version \in Versions :
       /\ version # upstream["main"]
       /\ repositoryContentsCache = Some(buildRepositoryContents(Repo("main", version)))

ServedCurrent == \E c \in SettledCalls : call[c].bundle = Some(CurrentMain)

ConfigOk == getConfig(env).status = "ok" /\ Truthy(env.GITHUB_TOKEN)

C9_FailedFillLeavesCacheEmpty ==
  [][\A c \in Calls :
       /\ (FetchFailed(c) /\ ~IsSome(repositoryContentsCache)) =>
            /\ ~IsSome(repositoryContentsCache')
            /\ IsSome(call'[c].error) /\ Get(call'[c].error).name = "Error"
            /\ FetchesIssued = {}
       /\ (Started(c) /\ ~IsSome(repositoryContentsCache) /\ ConfigOk) =>
            FetchesIssued = {c}]_vars

C9_Witness ==
  /\ ~IsSome(repositoryContentsCache)
  /\ \E c \in Calls :
       /\ call[c].pc = "threw"
       /\ Get(call[c].error) = PlainError("Failed to fetch repository tarball", 500)

\* -------------------------------------------------------------------------
\* C10: the bundle fetchRepositoryContents(ref) returns was built from a
\* tarball of that ref.
\* -------------------------------------------------------------------------
C10_BundleIsOfRequestedRef ==
  \A c \in Calls :
    (call[c].pc = "returned" /\ Get(call[c].request).kind = "fetchRepositoryContents") =>
      \E version \in Versions :
        call[c].value.repositoryContents = Some(buildRepositoryContents(Repo(Get(call[c].request).ref, version)))

MissingToken == ~IsSome(env.GITHUB_TOKEN) \/ Get(env.GITHUB_TOKEN) = <<>>

\* GITHUB_REPO is set, and nothing stands before its first "/" or nothing after it
MalformedRepo ==
  /\ IsSome(env.GITHUB_REPO) /\ Get(env.GITHUB_REPO) # <<>>
  /\ LET r == Get(env.GITHUB_REPO)
     IN  r[1] = "/" \/ \A i \in 1..Len(r) : r[i] = "/" => i = Len(r)

C13_FirstFillNeverOverwrites ==
  [][\A c \in InFlight :
       (~call[c].seen.hadPayload /\ IsSome(repositoryContentsCache) /\ c \notin InFlight') =>
         repositoryContentsCache' = repositoryContentsCache]_vars

\* -------------------------------------------------------------------------
\* C14 as stated: the sequence the metadata deriver returns, and so the one
\* every listNewsletters returns, is ordered by number descending.
\* -------------------------------------------------------------------------
NumberDescending(newsletters) ==
  \A i, j \in 1..Len(newsletters) : i < j => newsletters[i].number >= newsletters[j].number

DateDescending(newsletters) ==
  \A i, j \in 1..Len(newsletters) :
    i < j => DateOrdinal(newsletters[i].date) >= DateOrdinal(newsletters[j].date)

\* The bundles and the listNewsletters results the calls and the cache hold
DerivedListings ==
  {Get(call[c].bundle).newsletters : c \in {d \in Calls : IsSome(call[d].bundle)}}
    \cup {Get(call[c].value.newsletters) : c \in {d \in Calls : IsSome(call[d].value.newsletters)}}
    \cup (IF IsSome(repositoryContentsCache)
          THEN {Get(repositoryContentsCache).newsletters} ELSE {})

\* The tarballs under parse
TarballsUnderParse == {Get(call[c].tarballData) : c \in {d \in Calls : call[d].pc = "parsing"}}

IsNumberedDirName(d) ==
  /\ Len(d) > Len(StrNewsletterDash)
  /\ \A i \in 1..Len(d) :
       IF i <= Len(StrNewsletterDash) THEN d[i] = StrNewsletterDash[i] ELSE d[i] \in Digits

IsDatedFilename(f) ==
  \E k \in 1..Len(f) :
    /\ Len(f) = 10 + Len(StrRemixNewsletter) + k + Len(StrMd)
    /\ \A i \in 1..Len(f) :
         IF i \in {5, 8} THEN f[i] = "-"
         ELSE IF i <= 10 THEN f[i] \in Digits
         ELSE IF i <= 10 + Len(StrRemixNewsletter) THEN f[i] = StrRemixNewsletter[i - 10]
         ELSE IF i <= 10 + Len(StrRemixNewsletter) + k THEN f[i] \in Digits
         ELSE f[i] = StrMd[i - 10 - Len(StrRemixNewsletter) - k]

\* The position of the first "/" of a path (0 when it has none)
FirstSlash(path) ==
  IF \A i \in 1..Len(path) : path[i] # "/" THEN 0
  ELSE CHOOSE i \in 1..Len(path) : path[i] = "/" /\ \A j \in 1..(i - 1) : path[j] # "/"

InDirectory(path, d) == FirstSlash(path) = Len(d) + 1 /\ SubSeq(path, 1, Len(d)) = d

\* The directories of a file index: the first segment of every path that has one
Directories(files) ==
  {SubSeq(files[i][1], 1, FirstSlash(files[i][1]) - 1) :
     i \in {j \in 1..Len(files) : FirstSlash(files[j][1]) > 0}}

MarkdownFilesOf(files, d) ==
  {i \in 1..Len(files) : InDirectory(files[i][1], d) /\ EndsWith(files[i][2].name, StrMd)}

Qualifies(files, d) ==
  /\ IsNumberedDirName(d)
  /\ MarkdownFilesOf(files, d) # {}
  /\ LET first == CHOOSE i \in MarkdownFilesOf(files, d) :
                    \A j \in MarkdownFilesOf(files, d) : i <= j
     IN  IsDatedFilename(files[first][2].name)

RecordsOf(newsletters, d) == {k \in 1..Len(newsletters) : InDirectory(newsletters[k].path, d)}

\* The bundles the calls and the cache hold
Bundles ==
  {Get(call[c].bundle) : c \in {d \in Calls : IsSome(call[d].bundle)}}
    \cup (IF IsSome(repositoryContentsCache) THEN {Get(repositoryContentsCache)} ELSE {})

C15_OneRecordPerQualifyingDirectory ==
  \A b \in Bundles :
    /\ \A d \in Directories(b.files) :
         Cardinality(RecordsOf(b.newsletters, d)) = IF Qualifies(b.files, d) THEN 1 ELSE 0
    /\ \A k \in 1..Len(b.newsletters) :
         \E d \in Directories(b.files) : k \in RecordsOf(b.newsletters, d)

\* A bundle with a record for one directory and none for a numbered directory
\* whose dated file is not its first markdown file
C15_Witness ==
  \E b \in Bundles : \E d, e \in Directories(b.files) :
    /\ Qualifies(b.files, d)
    /\ IsNumberedDirName(e) /\ ~Qualifies(b.files, e)
    /\ \E i \in MarkdownFilesOf(b.files, e) : IsDatedFilename(b.files[i][2].name)
    /\ RecordsOf(b.newsletters, e) = {}

\* -------------------------------------------------------------------------
\* C16: in every listing the deriver returns, the item numbers are pairwise
\* distinct.
\* -------------------------------------------------------------------------
C16_NumbersDistinct ==
  \A b \in Bundles :
    \A i, j \in 1..Len(b.newsletters) :
      i # j => b.newsletters[i].number # b.newsletters[j].number

\* -------------------------------------------------------------------------
\* C18 as stated: the extractor creates a file record and a content entry for
\* an archive entry if and only if the entry is not a directory entry and its
\* path contains the segment newsletters/; relativePath is everything after that
\* segment and filename is the last segment of relativePath.
\* -------------------------------------------------------------------------
IsDirectoryEntry(entry) == entry.type = "directory" \/ EndsWith(entry.name, <<"/">>)

\* The positions after a segment "newsletters/" of a name
AfterMarkerSegment(name) ==
  {p \in 1..(Len(name) + 1) :
     /\ p > Len(StrNewsletters) + 1
     /\ SubSeq(name, p - Len(StrNewsletters) - 1, p - 1) = StrNewsletters \o <<"/">>
     /\ (p - Len(StrNewsletters) - 1 = 1 \/ name[p - Len(StrNewsletters) - 2] = "/")}

\* The positions after a segment "newsletters/" that has a folder above it (a
\* character other than "/" and then "/"), and after which the name goes on, by
\* one character or more, without a line terminator
AfterMarkerBelowFolder(name) ==
  {p \in AfterMarkerSegment(name) :
     /\ p - Len(StrNewsletters) - 1 >= 3
     /\ name[p - Len(StrNewsletters) - 3] # "/"
     /\ p <= Len(name)
     /\ \A i \in p..Len(name) : name[i] \notin LineTerminators}

Lowest(ps) == CHOOSE p \in ps : \A q \in ps : p <= q

LastSegment(path) ==
  LET slashes == {i \in 1..Len(path) : path[i] = "/"}
  IN  IF slashes = {} THEN path
      ELSE SubSeq(path, (CHOOSE i \in slashes : \A j \in slashes : j <= i) + 1, Len(path))

\* Bundle b holds exactly the records of the entries that have a position in
\* After(name), each under the rest of its name from the lowest such position
ExtractedAs(entries, b, After(_)) ==
  LET chosen == {i \in 1..Len(entries) :
                   ~IsDirectoryEntry(entries[i]) /\ After(entries[i].name) # {}}
      pathOf(i) == SubSeq(entries[i].name, Lowest(After(entries[i].name)),
                          Len(entries[i].name))
  IN  /\ {b.files[k][1] : k \in 1..Len(b.files)} = {pathOf(i) : i \in chosen}
      /\ {b.contents[k][1] : k \in 1..Len(b.contents)} = {pathOf(i) : i \in chosen}
      /\ \A k \in 1..Len(b.files) :
           \E i \in chosen :
             /\ b.files[k][1] = pathOf(i)
             /\ b.files[k][2] = [name |-> LastSegment(pathOf(i)), path |-> pathOf(i),
                                 size |-> entries[i].size]
             /\ MapGet(b.contents, pathOf(i)) = Some(entries[i].bytes)

C18_RecordIffMarkerSegment ==
  [][\A c \in Calls :
       (call[c].pc = "parsing" /\ IsSome(call'[c].bundle)) =>
         ExtractedAs(Get(call[c].tarballData), Get(call'[c].bundle), AfterMarkerSegment)]_vars

\* C18 as amended: the same, for the entries whose path holds the segment
\* newsletters/ below a folder and, after it, one character or more and no line
\* terminator; relativePath is everything after the first such segment.
C18_RecordIffMarkerBelowFolder ==
  [][\A c \in Calls :
       (call[c].pc = "parsing" /\ IsSome(call'[c].bundle)) =>
         ExtractedAs(Get(call[c].tarballData), Get(call'[c].bundle), AfterMarkerBelowFolder)]_vars

\* A bundle extracted from a tarball that held a file directly in newsletters/
\* and a file in a directory below it
C18_Witness ==
  \E c \in Calls :
    /\ call[c].pc = "returned" /\ ~call[c].seen.hadPayload
    /\ \E i, j \in 1..Len(Get(call[c].bundle).files) :
         LET files == Get(call[c].bundle).files
         IN  /\ files[i][2].name = files[i][1]
             /\ files[j][2].name # files[j][1]
             /\ files[j][2].name = LastSegment(files[j][1])

\* -------------------------------------------------------------------------
\* C19: fetchNewsletter(n) fails with NewsletterNotFoundError carrying n exactly
\* when the bundle lists no item with number n (or holds no content for the
\* item); a call that fails so leaves the cache as it was.
\* -------------------------------------------------------------------------
\* The calls of fetchNewsletter that have settled from a bundle
SettledFetchNewsletter ==
  {c \in SettledCalls :
     Get(call[c].request).kind = "fetchNewsletter" /\ IsSome(call[c].bundle)}

NotListed(b, n) ==
  \/ \A k \in 1..Len(b.newsletters) : b.newsletters[k].number # n
  \/ \E k \in 1..Len(b.newsletters) :
       /\ b.newsletters[k].number = n
       /\ \A j \in 1..(k - 1) : b.newsletters[j].number # n
       /\ \A i \in 1..Len(b.contents) : b.contents[i][1] # b.newsletters[k].path

C19_NotFoundIffNotListed ==
  /\ [](\A c \in SettledFetchNewsletter :
          LET n == Get(call[c].request).number
              failed == /\ call[c].pc = "threw"
                        /\ Get(call[c].error).name = "NewsletterNotFoundError"
                        /\ Get(call[c].error).number = n
          IN  /\ failed <=> NotListed(Get(call[c].bundle), n)
              /\ ~failed => call[c].pc = "returned")
  /\ [][\A c \in Calls :
          (Started(c) /\ IsSome(repositoryContentsCache) /\ call'[c].pc = "threw") =>
            repositoryContentsCache' = repositoryContentsCache]_vars

\* fetchNewsletter(1) has failed on a cached bundle that lists another number
C19_Witness ==
  \E c \in SettledFetchNewsletter :
    /\ call[c].pc = "threw" /\ call[c].seen.hadPayload
    /\ Get(call[c].error) = NewsletterNotFoundError(1)
    /\ Len(Get(call[c].bundle).newsletters) >= 1
    /\ call[c].bundle = repositoryContentsCache

\* -------------------------------------------------------------------------
\* C20: for every item listNewsletters returns, fetchNewsletter(item.number)
\* succeeds and returns the UTF-8 decoding of the bytes stored at item.path.
\* -------------------------------------------------------------------------
C20_ListedItemsRoundTrip ==
  \A c \in SettledFetchNewsletter :
    LET b == Get(call[c].bundle)
    IN  \A k \in 1..Len(b.newsletters) :
          b.newsletters[k].number = Get(call[c].request).number =>
            /\ call[c].pc = "returned"
            /\ \E i \in 1..Len(b.contents) :
                 /\ b.contents[i][1] = b.newsletters[k].path
                 /\ call[c].value.content = Some(Utf8Decode(b.contents[i][2]))

\* -------------------------------------------------------------------------
\* C21: fetchNewsletterImage(n, f) returns the bytes stored in the content map
\* under newsletter-<n>/<f> whenever that key exists, whether or not an item
\* with number n is listed, and fails with ImageNotFoundError carrying n and f
\* whenever the key is absent.
\* -------------------------------------------------------------------------
\* The calls of fetchNewsletterImage that have settled from a bundle
SettledFetchNewsletterImage ==
  {c \in SettledCalls :
     Get(call[c].request).kind = "fetchNewsletterImage" /\ IsSome(call[c].bundle)}

\* The decimal numeral of n, without leading zeros
RECURSIVE Numeral(_)
Numeral(n) ==
  IF n < 10 THEN <<CHOOSE d \in Digits : DigitValue(d) = n>>
  ELSE Append(Numeral(n \div 10), CHOOSE d \in Digits : DigitValue(d) = n % 10)

\* The key newsletter-<n>/<f>
ImageKey(n, f) ==
  <<"n", "e", "w", "s", "l", "e", "t", "t", "e", "r", "-">> \o Numeral(n) \o <<"/">> \o f

C21_ImageIffKeyStored ==
  \A c \in SettledFetchNewsletterImage :
    LET b == Get(call[c].bundle)
        n == Get(call[c].request).number
        f == Get(call[c].request).filename
        stored == {i \in 1..Len(b.contents) : b.contents[i][1] = ImageKey(n, f)}
    IN  IF stored # {}
        THEN /\ call[c].pc = "returned"
             /\ \A i \in stored : Get(call[c].value.image).bytes = b.contents[i][2]
        ELSE /\ call[c].pc = "threw"
             /\ Get(call[c].error).name = "ImageNotFoundError"
             /\ Get(call[c].error).number = n
             /\ Get(call[c].error).filename = f

\* An image has been returned from a bundle that lists no item of its number
C21_Witness ==
  \E c \in SettledFetchNewsletterImage :
    LET b == Get(call[c].bundle)
    IN  /\ call[c].pc = "returned"
        /\ Len(Get(call[c].value.image).bytes) > 0
        /\ \A k \in 1..Len(b.newsletters) :
             b.newsletters[k].number # Get(call[c].request).number

\* -------------------------------------------------------------------------
\* C22: the HTTP layer answers 404 when, and only when, an accessor fails with
\* a not-found error: NewsletterNotFoundError on the newsletter route,
\* ImageNotFoundError on the image route.
\* -------------------------------------------------------------------------
\* In this step the handler in slot c builds its response
Answers(c) == http[c].pc # "done" /\ http'[c].pc = "done"

\* The accessor the handler in slot c awaited has failed with the not-found
\* error of the handler's route
FailedNotFound(c) ==
  /\ call[c].pc = "threw"
  /\ \/ /\ http[c].route = "newsletter"
        /\ Get(call[c].error).name = "NewsletterNotFoundError"
     \/ /\ http[c].route = "newsletterImage"
        /\ Get(call[c].error).name = "ImageNotFoundError"

C22_NotFoundIff404 ==
  [][\A c \in Calls : Answers(c) => (http'[c].status = 404 <=> FailedNotFound(c))]_vars

\* -------------------------------------------------------------------------
\* C23: an upstream fetch failure (a response from GitHub that is not 2xx)
\* raised by an accessor is answered with a 5xx status on the home, newsletter
\* and image routes, never with a 2xx or a 404.
\* -------------------------------------------------------------------------
\* The accessor the handler in slot c awaited has failed on the response of
\* the tarball endpoint
FailedUpstream(c) ==
  /\ call[c].pc = "threw"
  /\ Get(call[c].error).message = "Failed to fetch repository tarball"
  /\ Get(call[c].error).status \in FailStatuses

C23_UpstreamFailureIs5xx ==
  [][\A c \in Calls :
       (Answers(c) /\ FailedUpstream(c)) => http'[c].status \in 500..599]_vars

\* The same two statements of the handlers of router.ts alone
RouterTsNotFoundIff404 ==
  [][router = "router.ts" =>
       \A c \in Calls : Answers(c) => (http'[c].status = 404 <=> FailedNotFound(c))]_vars
RouterTsUpstreamFailureIs5xx ==
  [][router = "router.ts" =>
       \A c \in Calls :
         (Answers(c) /\ FailedUpstream(c)) => http'[c].status \in 500..599]_vars

\* -------------------------------------------------------------------------
\* C24: for every listed item whose filename matches the dated-filename
\* pattern, the year, month and day of its date equal the YYYY, MM and DD
\* digit fields of the filename.
\* -------------------------------------------------------------------------
\* The number written by the digits at positions i..j of f
Field(f, i, j) ==
  LET RECURSIVE Upto(_)
      Upto(k) == IF k < i THEN 0 ELSE 10 * Upto(k - 1) + DigitValue(f[k])
  IN  Upto(j)

C24_DateIsFilenameFields ==
  \A b \in Bundles : \A k \in 1..Len(b.newsletters) :
    LET item == b.newsletters[k]
    IN  IsDatedFilename(item.filename) =>
          /\ item.date.year = Field(item.filename, 1, 4)
          /\ item.date.month = Field(item.filename, 6, 7)
          /\ item.date.day = Field(item.filename, 9, 10)

\* The same for the filenames whose fields name a day of the calendar
CalendarDatesKept ==
  \A b \in Bundles : \A k \in 1..Len(b.newsletters) :
    LET item == b.newsletters[k]
        y == Field(item.filename, 1, 4)
        m == Field(item.filename, 6, 7)
        d == Field(item.filename, 9, 10)
    IN  (IsDatedFilename(item.filename) /\ y >= 100 /\ m \in 1..12 /\ d \in 1..DaysInMonth(y, m)) =>
          item.date = [year |-> y, month |-> m, day |-> d]

\* -------------------------------------------------------------------------
\* C25: the on-disk image cache does not change observable behaviour: whatever
\* the calls of fetchNewsletterImage, the token and the upstream repository
\* have been, a call gives with the cache what it gives without it.
\* -------------------------------------------------------------------------
C25_DiskCacheUnobservable ==
  \A c \in SettledCalls :
    Get(call[c].request).kind = "fetchNewsletterImage" =>
      /\ uncached[c].pc = call[c].pc
      /\ uncached[c].image = call[c].value.image
      /\ uncached[c].error = call[c].error

\* -------------------------------------------------------------------------
\* C26: in every bundle the file index and the content map have the same key
\* set and every listed item's path is a key of both, so fetchNewsletter never
\* fails for a listed number: its "metadata exists but content missing" branch
\* is not taken.
\* -------------------------------------------------------------------------
IndexKeys(b) == {b.files[i][1] : i \in 1..Len(b.files)}
ContentKeys(b) == {b.contents[i][1] : i \in 1..Len(b.contents)}

C26_IndexAndContentAgree ==
  /\ \A b \in Bundles :
       /\ IndexKeys(b) = ContentKeys(b)
       /\ \A k \in 1..Len(b.newsletters) :
            b.newsletters[k].path \in IndexKeys(b) \cap ContentKeys(b)
  /\ \A c \in SettledFetchNewsletter :
       (\E k \in 1..Len(Get(call[c].bundle).newsletters) :
          Get(call[c].bundle).newsletters[k].number = Get(call[c].request).number) =>
         call[c].pc = "returned"

\* fetchNewsletter has returned the content of a listed item from a bundle that
\* also holds a file that is no item's primary file
C26_Witness ==
  \E c \in SettledFetchNewsletter :
    LET b == Get(call[c].bundle)
    IN  /\ call[c].pc = "returned"
        /\ IsSome(call[c].value.content)
        /\ \E key \in IndexKeys(b) :
             \A k \in 1..Len(b.newsletters) : b.newsletters[k].path # key

\* -------------------------------------------------------------------------
\* C27: for every listed item and every file stored directly in the item's
\* directory, fetchNewsletterImage(item.number, file.name) returns that file's
\* bytes: the directory name rebuilt from the parsed number is the item's
\* directory name.
\* -------------------------------------------------------------------------
\* The directory of an item: the first segment of its path
ItemDirectory(item) == SubSeq(item.path, 1, FirstSlash(item.path) - 1)

\* The files of bundle b stored directly in directory d under the name f
StoredDirectly(b, d, f) ==
  {i \in 1..Len(b.files) : b.files[i][1] = d \o <<"/">> \o f}

C27_ItemFilesAreFetchable ==
  \A c \in SettledFetchNewsletterImage :
    LET b == Get(call[c].bundle)
        n == Get(call[c].request).number
        f == Get(call[c].request).filename
    IN  \A k \in 1..Len(b.newsletters) :
          b.newsletters[k].number = n =>
            \A i \in StoredDirectly(b, ItemDirectory(b.newsletters[k]), f) :
              /\ call[c].pc = "returned"
              /\ \E j \in 1..Len(b.contents) :
                   /\ b.contents[j][1] = b.files[i][1]
                   /\ Get(call[c].value.image).bytes = b.contents[j][2]

\* The same for the items whose directory name is the numeral of their number
CanonicalItemFilesAreFetchable ==
  \A c \in SettledFetchNewsletterImage :
    LET b == Get(call[c].bundle)
        n == Get(call[c].request).number
        f == Get(call[c].request).filename
    IN  \A k \in 1..Len(b.newsletters) :
          (b.newsletters[k].number = n
             /\ ItemDirectory(b.newsletters[k]) = SubSeq(ImageKey(n, <<>>), 1,
                                                         Len(ImageKey(n, <<>>)) - 1)) =>
            \A i \in StoredDirectly(b, ItemDirectory(b.newsletters[k]), f) :
              /\ call[c].pc = "returned"
              /\ \E j \in 1..Len(b.contents) :
                   /\ b.contents[j][1] = b.files[i][1]
                   /\ Get(call[c].value.image).bytes = b.contents[j][2]

\* -------------------------------------------------------------------------
\* C28: within one home-page request the newsletter list and the content the
\* previews are made from come from the same bundle, whatever other requests
\* fill the cache meanwhile.
\* -------------------------------------------------------------------------
\* The home handlers that have read the contents for their previews
HomeWithPreviews == {c \in Calls : http[c].route = "home" /\ IsSome(http[c].contents)}

C28_HomeReadsOneBundle ==
  \A c \in HomeWithPreviews :
    LET b == Get(http[c].contents)
        newsletters == Get(http[c].newsletters)
    IN  /\ http[c].listedFrom = Some(b)
        /\ newsletters = b.newsletters
        /\ Len(http[c].previews) = Len(newsletters)
        /\ \A k \in 1..Len(newsletters) :
             \E i \in 1..Len(Get(http[c].listedFrom).contents) :
               /\ Get(http[c].listedFrom).contents[i][1] = newsletters[k].path
               /\ http[c].previews[k] =
                    Some(Utf8Decode(Get(http[c].listedFrom).contents[i][2]))

\* A home page has been built from a bundle with items while another request's
\* fetch was in flight, and that fetch has since replaced the cached bundle
C28_Witness ==
  \E c \in HomeWithPreviews :
    /\ http[c].status = 200
    /\ Len(Get(http[c].newsletters)) >= 1
    /\ IsSome(repositoryContentsCache)
    /\ repositoryContentsCache # http[c].contents

\* -------------------------------------------------------------------------
\* C29: the deriver's output depends only on the set of file records, not on
\* the order in which they were inserted into the file index: the same records
\* in any other order derive the same sequence, with the same primary files.
\* -------------------------------------------------------------------------
\* The file index with its records in the order p
Reordered(files, p) == [i \in 1..Len(files) |-> files[p[i]]]

C29_DeriverIgnoresInsertionOrder ==
  \A b \in Bundles : \A p \in Permutations(1..Len(b.files)) :
    extractNewsletterMetadata(Reordered(b.files, p)) = b.newsletters

\* The same for the file indexes in which no directory holds two markdown files
\* and no two directories have the same number
OneMarkdownFilePerNumber(files) ==
  /\ \A d \in Directories(files) : Cardinality(MarkdownFilesOf(files, d)) <= 1
  /\ \A i, j \in 1..Len(extractNewsletterMetadata(files)) :
       i # j => extractNewsletterMetadata(files)[i].number
                  # extractNewsletterMetadata(files)[j].number

UnambiguousIndexIgnoresInsertionOrder ==
  \A b \in Bundles : \A p \in Permutations(1..Len(b.files)) :
    OneMarkdownFilePerNumber(b.files) =>
      extractNewsletterMetadata(Reordered(b.files, p)) = b.newsletters

\* -------------------------------------------------------------------------
\* C30: for every listed item, the trailing number of the primary file's
\* filename equals the item's number, the number taken from the directory name.
\* -------------------------------------------------------------------------
\* The number written between "-remix-newsletter-" and ".md" in a dated filename
TrailingNumber(f) == Field(f, 11 + Len(StrRemixNewsletter), Len(f) - Len(StrMd))

C30_FilenameNumberIsItemNumber ==
  \A b \in Bundles : \A k \in 1..Len(b.newsletters) :
    TrailingNumber(b.newsletters[k].filename) = b.newsletters[k].number

====
